---- MODULE Spec2Model ----
(***************************************************************************)
(* A model of the Radiotap capture parser (crate `radiotap`):              *)
(*   - the header parser           src/src/field/mod.rs  Header::from_bytes *)
(*   - the cursor alignment        src/src/lib.rs        Align for Cursor   *)
(*   - the default namespace       src/src/ns.rs         Radiotap,          *)
(*                                                       RadiotapKind       *)
(*   - the field decoders          src/src/field/mod.rs                     *)
(*   - the iteration driver, which the crate only carries as drafts in     *)
(*     comments of src/src/lib.rs and as the tests at the end of that file; *)
(*     it is modelled from section 4.6 of the specification.               *)
(*   - field::ext (Bandwidth, the rate tables, TimeUnit, SamplingPosition), *)
(*     which the crate declares and uses but whose file is not among the   *)
(*     sources; it is modelled from sections 4.3 and 4.4.                  *)
(*                                                                         *)
(* Spec parses a capture: the header parser, then the driver.  FieldSpec   *)
(* calls one function on its own: a field decoder, Align::align or         *)
(* RadiotapKind::from_bit.                                                 *)
(*                                                                         *)
(* Numbers wider than 16 bits (u32 presence words, u64 timers) are kept as *)
(* the set of their set bit positions, so that no value leaves the range   *)
(* of the model checker's integers.  Bytes are 0..255.                     *)
(***************************************************************************)
EXTENDS Integers, Sequences, FiniteSets, TLC

VARIABLES
    input,      \* the capture handed to the parser: a sequence of bytes
    pc,         \* "start" | "parsed" | "iter" | "done" | "error"
    err,        \* the ErrorKind of a failed parse, "None" otherwise
    header,     \* the Header returned by Header::from_bytes
    cursor,     \* position of the driver's cursor, counted from input[0]
    bit,        \* index of the next presence bit across the presence chain
    vendor,     \* the active namespace: "Default" or "Unknown" (a vendor)
    radiotap,   \* the aggregated default-namespace record
    steps,      \* the steps the driver has taken, in order: what each was
                \* about and the byte range it handled
    call,       \* a call of one function of the crate on its own: the
                \* function and its arguments
    ret         \* what that call returned, once it has

vars == <<input, pc, err, header, cursor, bit, vendor, radiotap, steps, call, ret>>

----------------------------------------------------------------------------
(* Bounds of the model.                                                    *)

\* largest number of presence words a generated capture carries
MaxWords == 3
\* largest number of payload bytes a generated capture carries
MaxPayload == 12
\* longest slice a field decoder is run on (the largest field has 12 bytes)
MaxSlice == 13
\* largest cursor position Align::align is run on
MaxPos == 40

----------------------------------------------------------------------------
(* Bit and byte primitives (crates bitops and byteorder, std::io::Cursor). *)

Pow2(n) == 2 ^ n

\* BitOps::is_bit_set on a number of at most 16 bits
is_bit_set(v, n) == (v \div Pow2(n)) % 2 = 1

\* BitOps::is_flag_set: every bit of flag is set in v (v, flag < 2^16)
is_flag_set(v, flag) ==
    \A n \in 0..15 : is_bit_set(flag, n) => is_bit_set(v, n)

\* the sum of 2^n over the bits n of 0..15 for which F[n] holds
FromBits(F) ==
    LET RECURSIVE Bits(_)
        Bits(n) == IF n > 15 THEN 0
                   ELSE (IF F[n] THEN Pow2(n) ELSE 0) + Bits(n + 1)
    IN Bits(0)

\* a & b, a | b, a ^ b and a >> n, for numbers below 2^16
BitAnd(a, b) == FromBits([n \in 0..15 |-> is_bit_set(a, n) /\ is_bit_set(b, n)])
BitOr(a, b) == FromBits([n \in 0..15 |-> is_bit_set(a, n) \/ is_bit_set(b, n)])
BitXor(a, b) == FromBits([n \in 0..15 |-> is_bit_set(a, n) # is_bit_set(b, n)])
ShiftRight(a, n) == a \div Pow2(n)

\* BitOps::bits_as_int: count bits of v from bit start up
bits_as_int(v, start, count) == (v \div Pow2(start)) % Pow2(count)

\* number of bytes left in a cursor over data at position pos
Remaining(data, pos) == IF pos >= Len(data) THEN 0 ELSE Len(data) - pos

\* ReadBytesExt::read_u8 at position pos (0-based); fails at the end of data
read_u8(data, pos) ==
    IF Remaining(data, pos) < 1 THEN [ok |-> FALSE]
    ELSE [ok |-> TRUE, val |-> data[pos + 1], pos |-> pos + 1]

\* read_i8 that takes the byte as it is, unsigned
read_i8_unsigned(data, pos) ==
    IF Remaining(data, pos) < 1 THEN [ok |-> FALSE]
    ELSE [ok |-> TRUE, val |-> data[pos + 1], pos |-> pos + 1]

\* ReadBytesExt::read_i8: the byte as a two's-complement number
read_i8(data, pos) ==
    IF Remaining(data, pos) < 1 THEN [ok |-> FALSE]
    ELSE [ok |-> TRUE,
          val |-> IF data[pos + 1] >= 128 THEN data[pos + 1] - 256 ELSE data[pos + 1],
          pos |-> pos + 1]

\* read_u16 that takes the low byte only
read_u16_LE_low_byte(data, pos) ==
    IF Remaining(data, pos) < 2 THEN [ok |-> FALSE]
    ELSE [ok |-> TRUE, val |-> data[pos + 1], pos |-> pos + 2]

\* ReadBytesExt::read_u16::<LE>
read_u16_LE(data, pos) ==
    IF Remaining(data, pos) < 2 THEN [ok |-> FALSE]
    ELSE [ok |-> TRUE, val |-> data[pos + 1] + 256 * data[pos + 2], pos |-> pos + 2]

\* the bits of the little-endian number held in n bytes at pos: bit 8*i+j of
\* the number is bit j of byte i
BitsLE(data, pos, n) ==
    {b \in 0..(8 * n - 1) : is_bit_set(data[pos + 1 + (b \div 8)], b % 8)}

\* ReadBytesExt::read_u32::<LE>, the value as its set of set bits
read_u32_LE(data, pos) ==
    IF Remaining(data, pos) < 4 THEN [ok |-> FALSE]
    ELSE [ok |-> TRUE, val |-> BitsLE(data, pos, 4), pos |-> pos + 4]

\* ReadBytesExt::read_u64::<LE>, the value as its set of set bits
read_u64_LE(data, pos) ==
    IF Remaining(data, pos) < 8 THEN [ok |-> FALSE]
    ELSE [ok |-> TRUE, val |-> BitsLE(data, pos, 8), pos |-> pos + 8]

\* Option<T>
None == <<>>
Some(v) == <<v>>

\* Result<T>
Ok(v) == [ok |-> TRUE, val |-> v]
Err(kind) == [ok |-> FALSE, err |-> kind]

----------------------------------------------------------------------------
(* The header parser.                                                      *)

\* the loop of Header::from_bytes: read presence words from pos on, pushing
\* each, until the break condition holds for the word read
RECURSIVE ReadPresent(_, _, _)
ReadPresent(data, pos, kinds) ==
    LET present == read_u32_LE(data, pos) IN
    IF ~present.ok THEN Err("IoError")
    ELSE IF 31 \in present.val
         THEN Ok([present |-> Append(kinds, present.val), pos |-> present.pos])
         ELSE ReadPresent(data, present.pos, Append(kinds, present.val))

\* Header::from_bytes with the version tested after the pad and length reads
Header_from_bytes_version_late(data) ==
    LET version == read_u8(data, 0) IN
    IF ~version.ok THEN Err("IoError")
    ELSE LET pad == read_u8(data, version.pos) IN
    IF ~pad.ok THEN Err("IoError")
    ELSE LET length == read_u16_LE(data, pad.pos) IN
    IF ~length.ok THEN Err("IoError")
    ELSE IF version.val # 0 THEN Err("UnsupportedVersion")
    ELSE IF Len(data) < length.val THEN Err("InvalidLength")
    ELSE LET words == ReadPresent(data, length.pos, <<>>) IN
    IF ~words.ok THEN Err("IoError")
    ELSE Ok([version |-> version.val,
             length  |-> length.val,
             size    |-> words.val.pos,
             present |-> words.val.present])

\* Header::from_bytes with the size taken as the bytes of the presence words
Header_from_bytes_size_of_words(data) ==
    LET version == read_u8(data, 0) IN
    IF ~version.ok THEN Err("IoError")
    ELSE IF version.val # 0 THEN Err("UnsupportedVersion")
    ELSE LET pad == read_u8(data, version.pos) IN
    IF ~pad.ok THEN Err("IoError")
    ELSE LET length == read_u16_LE(data, pad.pos) IN
    IF ~length.ok THEN Err("IoError")
    ELSE IF Len(data) < length.val THEN Err("InvalidLength")
    ELSE LET words == ReadPresent(data, length.pos, <<>>) IN
    IF ~words.ok THEN Err("IoError")
    ELSE Ok([version |-> version.val,
             length  |-> length.val,
             size    |-> 4 * Len(words.val.present),
             present |-> words.val.present])

\* Header::from_bytes
Header_from_bytes(data) ==
    LET version == read_u8(data, 0) IN
    IF ~version.ok THEN Err("IoError")
    ELSE IF version.val # 0 THEN Err("UnsupportedVersion")
    ELSE LET pad == read_u8(data, version.pos) IN
    IF ~pad.ok THEN Err("IoError")
    ELSE LET length == read_u16_LE(data, pad.pos) IN
    IF ~length.ok THEN Err("IoError")
    ELSE IF Len(data) < length.val THEN Err("InvalidLength")
    ELSE LET words == ReadPresent(data, length.pos, <<>>) IN
    IF ~words.ok THEN Err("IoError")
    ELSE Ok([version |-> version.val,
             length  |-> length.val,
             size    |-> words.val.pos,
             present |-> words.val.present])

\* the header before Header::from_bytes has returned one
NoHeader == [version |-> 0, length |-> 0, size |-> 0, present |-> <<>>]

----------------------------------------------------------------------------
(* Cursor alignment (src/src/lib.rs).                                      *)

\* x & !m for numbers below 2^16
BitAndNot(x, m) ==
    LET RECURSIVE Clr(_)
        Clr(n) == IF n > 15 THEN 0
                  ELSE (IF is_bit_set(x, n) /\ ~is_bit_set(m, n) THEN Pow2(n) ELSE 0)
                       + Clr(n + 1)
    IN Clr(0)

\* align that leaves the position where it is
Cursor_align_none(p, align) == p

\* align that rounds down: p & !(align - 1)
Cursor_align_down(p, align) == BitAndNot(p, align - 1)

\* align that adds align instead of align - 1: (p + align) & !(align - 1)
Cursor_align_next(p, align) == BitAndNot(p + align, align - 1)

\* align that masks with align instead of align - 1: (p + align - 1) & !align
Cursor_align_mask(p, align) == BitAndNot(p + align - 1, align)

\* Align for Cursor<T>::align: the position after aligning position p
Cursor_align(p, align) == BitAndNot(p + align - 1, align - 1)

----------------------------------------------------------------------------
(* The default namespace (src/src/ns.rs).                                  *)

\* enum RadiotapKind, in declaration order
RadiotapKind ==
    <<"Tsft", "Flags", "Rate", "Channel", "Fhss", "AntennaSignal",
      "AntennaNoise", "LockQuality", "TxAttenuation", "TxAttenuationDb",
      "TxPower", "Antenna", "AntennaSignalDb", "AntennaNoiseDb", "RxFlags",
      "TxFlags", "RtsRetries", "DataRetries", "XChannel", "Mcs",
      "AmpduStatus", "Vht", "Timestamp">>

\* RadiotapKind::from_bit
RadiotapKind_from_bit(value) ==
    IF value \in 0..22 THEN Ok(RadiotapKind[value + 1])
    ELSE Err("invalid Radiotap kind")

\* RadiotapKind::align
RadiotapKind_align(kind) ==
    CASE kind \in {"Tsft", "Timestamp"} -> 8
      [] kind \in {"XChannel", "AmpduStatus"} -> 4
      [] kind \in {"Channel", "Fhss", "LockQuality", "TxAttenuation",
                   "TxAttenuationDb", "RxFlags", "TxFlags", "Vht"} -> 2
      [] OTHER -> 1

\* RadiotapKind::size without the arm of Mcs, which then has the size of
\* the default arm
RadiotapKind_size_mcs_default(kind) ==
    CASE kind \in {"Vht", "Timestamp"} -> 12
      [] kind \in {"Tsft", "AmpduStatus", "XChannel"} -> 8
      [] kind = "Channel" -> 4
      [] kind \in {"Fhss", "LockQuality", "TxAttenuation", "TxAttenuationDb",
                   "RxFlags", "TxFlags"} -> 2
      [] OTHER -> 1

\* RadiotapKind::size
RadiotapKind_size(kind) ==
    CASE kind \in {"Vht", "Timestamp"} -> 12
      [] kind \in {"Tsft", "AmpduStatus", "XChannel"} -> 8
      [] kind = "Channel" -> 4
      [] kind = "Mcs" -> 3
      [] kind \in {"Fhss", "LockQuality", "TxAttenuation", "TxAttenuationDb",
                   "RxFlags", "TxFlags"} -> 2
      [] OTHER -> 1

----------------------------------------------------------------------------
(* Field decoders (src/src/field/mod.rs).  Each returns Ok(value) or the   *)
(* failure of the read that ran out of bytes.                              *)

\* the f32 n / 2.0 for an 8-bit n: exact, kept as its number of halves
HalfOf(n) == [halves |-> n]

\* a decoder that is one read: the value read, wrapped in the field's struct
OneRead(r) == IF r.ok THEN Ok([value |-> r.val]) ELSE Err("io")

\* VendorNamespace::from_bytes with skip_length read by read_u8
VendorNamespace_from_bytes_u8_skip(data) ==
    LET n == IF Len(data) < 3 THEN Len(data) ELSE 3
        oui == [i \in 1..3 |-> IF i <= n THEN data[i] ELSE 0]
        sub_namespace == read_u8(data, n)
    IN IF ~sub_namespace.ok THEN Err("io")
       ELSE LET skip_length == read_u8(data, sub_namespace.pos) IN
            IF ~skip_length.ok THEN Err("io")
            ELSE Ok([oui |-> oui, sub_namespace |-> sub_namespace.val,
                     skip_length |-> skip_length.val])

\* VendorNamespace::from_bytes with skip_length read big-endian
VendorNamespace_from_bytes_be_skip(data) ==
    LET n == IF Len(data) < 3 THEN Len(data) ELSE 3
        oui == [i \in 1..3 |-> IF i <= n THEN data[i] ELSE 0]
        sub_namespace == read_u8(data, n)
    IN IF ~sub_namespace.ok THEN Err("io")
       ELSE LET skip_length == read_u16_LE(data, sub_namespace.pos) IN
            IF ~skip_length.ok THEN Err("io")
            ELSE Ok([oui |-> oui, sub_namespace |-> sub_namespace.val,
                     skip_length |-> 256 * (skip_length.val % 256)
                                     + (skip_length.val \div 256)])

\* VendorNamespace::from_bytes; Read::read on the oui takes what is there
VendorNamespace_from_bytes(data) ==
    LET n == IF Len(data) < 3 THEN Len(data) ELSE 3
        oui == [i \in 1..3 |-> IF i <= n THEN data[i] ELSE 0]
        sub_namespace == read_u8(data, n)
    IN IF ~sub_namespace.ok THEN Err("io")
       ELSE LET skip_length == read_u16_LE(data, sub_namespace.pos) IN
            IF ~skip_length.ok THEN Err("io")
            ELSE Ok([oui |-> oui, sub_namespace |-> sub_namespace.val,
                     skip_length |-> skip_length.val])

\* Tsft::from_bytes
Tsft_from_bytes(data) == OneRead(read_u64_LE(data, 0))

\* Flags::from_bytes
Flags_from_bytes(data) ==
    LET flags == read_u8(data, 0) IN
    IF ~flags.ok THEN Err("io")
    ELSE Ok([cfp           |-> is_flag_set(flags.val, 1),
             preamble      |-> is_flag_set(flags.val, 2),
             wep           |-> is_flag_set(flags.val, 4),
             fragmentation |-> is_flag_set(flags.val, 8),
             fcs           |-> is_flag_set(flags.val, 16),
             data_pad      |-> is_flag_set(flags.val, 32),
             bad_fcs       |-> is_flag_set(flags.val, 64),
             sgi           |-> is_flag_set(flags.val, 128)])

\* Rate::from_bytes
Rate_from_bytes(data) ==
    LET raw == read_i8(data, 0) IN
    IF ~raw.ok THEN Err("io") ELSE Ok([value |-> HalfOf(raw.val)])

\* Channel::from_bytes
Channel_from_bytes(data) ==
    LET freq == read_u16_LE(data, 0) IN
    IF ~freq.ok THEN Err("io")
    ELSE LET flags == read_u16_LE(data, freq.pos) IN
    IF ~flags.ok THEN Err("io")
    ELSE Ok([freq |-> freq.val,
             flags |-> [turbo   |-> is_flag_set(flags.val, 16),
                        cck     |-> is_flag_set(flags.val, 32),
                        ofdm    |-> is_flag_set(flags.val, 64),
                        ghz2    |-> is_flag_set(flags.val, 128),
                        ghz5    |-> is_flag_set(flags.val, 256),
                        passive |-> is_flag_set(flags.val, 512),
                        dynamic |-> is_flag_set(flags.val, 1024),
                        gfsk    |-> is_flag_set(flags.val, 2048)]])

\* Fhss::from_bytes
Fhss_from_bytes(data) ==
    LET hopset == read_u8(data, 0) IN
    IF ~hopset.ok THEN Err("io")
    ELSE LET pattern == read_u8(data, hopset.pos) IN
    IF ~pattern.ok THEN Err("io")
    ELSE Ok([hopset |-> hopset.val, pattern |-> pattern.val])

\* AntennaSignal::from_bytes
AntennaSignal_from_bytes(data) == OneRead(read_i8(data, 0))

\* AntennaSignalDb::from_bytes
AntennaSignalDb_from_bytes(data) == OneRead(read_u8(data, 0))

\* AntennaNoise::from_bytes
AntennaNoise_from_bytes(data) == OneRead(read_i8(data, 0))

\* AntennaNoiseDb::from_bytes
AntennaNoiseDb_from_bytes(data) == OneRead(read_u8(data, 0))

\* LockQuality::from_bytes
LockQuality_from_bytes(data) == OneRead(read_u16_LE(data, 0))

\* TxAttenuation::from_bytes
TxAttenuation_from_bytes(data) == OneRead(read_u16_LE(data, 0))

\* TxAttenuationDb::from_bytes
TxAttenuationDb_from_bytes(data) == OneRead(read_u16_LE(data, 0))

\* TxPower::from_bytes
TxPower_from_bytes(data) == OneRead(read_i8(data, 0))

\* Antenna::from_bytes
Antenna_from_bytes(data) == OneRead(read_u8(data, 0))

\* RxFlags::from_bytes
RxFlags_from_bytes(data) ==
    LET flags == read_u16_LE(data, 0) IN
    IF ~flags.ok THEN Err("io")
    ELSE Ok([bad_plcp |-> is_flag_set(flags.val, 2)])

\* TxFlags::from_bytes
TxFlags_from_bytes(data) ==
    LET flags == read_u8(data, 0) IN
    IF ~flags.ok THEN Err("io")
    ELSE Ok([fail   |-> is_flag_set(flags.val, 1),
             cts    |-> is_flag_set(flags.val, 2),
             rts    |-> is_flag_set(flags.val, 4),
             no_ack |-> is_flag_set(flags.val, 8),
             no_seq |-> is_flag_set(flags.val, 16)])

\* RtsRetries::from_bytes
RtsRetries_from_bytes(data) == OneRead(read_u8(data, 0))

\* DataRetries::from_bytes
DataRetries_from_bytes(data) == OneRead(read_u8(data, 0))

\* XChannel::from_bytes
XChannel_from_bytes(data) ==
    LET flags == read_u32_LE(data, 0) IN
    IF ~flags.ok THEN Err("io")
    ELSE LET freq == read_u16_LE(data, flags.pos) IN
    IF ~freq.ok THEN Err("io")
    ELSE LET channel == read_u8(data, freq.pos) IN
    IF ~channel.ok THEN Err("io")
    ELSE LET max_power == read_u8(data, channel.pos) IN
    IF ~max_power.ok THEN Err("io")
    ELSE Ok([flags |-> [turbo   |-> 4 \in flags.val,
                        cck     |-> 5 \in flags.val,
                        ofdm    |-> 6 \in flags.val,
                        ghz2    |-> 7 \in flags.val,
                        ghz5    |-> 8 \in flags.val,
                        passive |-> 9 \in flags.val,
                        dynamic |-> 10 \in flags.val,
                        gfsk    |-> 11 \in flags.val,
                        gsm     |-> 12 \in flags.val,
                        sturbo  |-> 13 \in flags.val,
                        half    |-> 14 \in flags.val,
                        quarter |-> 15 \in flags.val,
                        ht20    |-> 16 \in flags.val,
                        ht40u   |-> 17 \in flags.val,
                        ht40d   |-> 18 \in flags.val],
             freq |-> freq.val, channel |-> channel.val,
             max_power |-> max_power.val])

\* AmpduStatus::from_bytes that yields the delimiter CRC whenever it is
\* known, CRC error or not
AmpduStatus_from_bytes_crc_despite_error(data) ==
    LET reference == read_u32_LE(data, 0) IN
    IF ~reference.ok THEN Err("io")
    ELSE LET flags == read_u16_LE(data, reference.pos) IN
    IF ~flags.ok THEN Err("io")
    ELSE LET delim_crc == read_u8(data, flags.pos) IN
    IF ~delim_crc.ok THEN Err("io")
    ELSE Ok([reference   |-> reference.val,
             zero_length |-> IF is_flag_set(flags.val, 1)
                             THEN Some(is_flag_set(flags.val, 2)) ELSE None,
             last        |-> IF is_flag_set(flags.val, 4)
                             THEN Some(is_flag_set(flags.val, 8)) ELSE None,
             delimiter_crc |-> IF is_flag_set(flags.val, 32)
                               THEN Some(delim_crc.val) ELSE None])

\* AmpduStatus::from_bytes
AmpduStatus_from_bytes(data) ==
    LET reference == read_u32_LE(data, 0) IN
    IF ~reference.ok THEN Err("io")
    ELSE LET flags == read_u16_LE(data, reference.pos) IN
    IF ~flags.ok THEN Err("io")
    ELSE LET delim_crc == read_u8(data, flags.pos) IN
    IF ~delim_crc.ok THEN Err("io")
    ELSE Ok([reference   |-> reference.val,
             zero_length |-> IF is_flag_set(flags.val, 1)
                             THEN Some(is_flag_set(flags.val, 2)) ELSE None,
             last        |-> IF is_flag_set(flags.val, 4)
                             THEN Some(is_flag_set(flags.val, 8)) ELSE None,
             delimiter_crc |-> IF ~is_flag_set(flags.val, 16) /\ is_flag_set(flags.val, 32)
                               THEN Some(delim_crc.val) ELSE None])

----------------------------------------------------------------------------
(* field::ext: the types and rate tables the Mcs, Vht and Timestamp        *)
(* decoders use.  The crate declares the module (field/mod.rs: pub mod     *)
(* ext) and uses its items; what they do is taken from sections 4.3 and    *)
(* 4.4 of the specification.  A rate is kept in tenths of a Mbps.          *)

\* Bandwidth::new: the bandwidth in MHz and the sideband the value encodes;
\* 0..3 as the Mcs flags encode it (20, 40, 20L, 20U), 4..25 the 80 and 160
\* MHz channels and their sidebands of the Vht field
Bandwidth_new(value) ==
    CASE value = 0 -> Ok([bandwidth |-> 20, sideband |-> "None"])
      [] value = 1 -> Ok([bandwidth |-> 40, sideband |-> "None"])
      [] value = 2 -> Ok([bandwidth |-> 20, sideband |-> "L"])
      [] value = 3 -> Ok([bandwidth |-> 20, sideband |-> "U"])
      [] value = 4 -> Ok([bandwidth |-> 80, sideband |-> "None"])
      [] value \in 5..10 -> Ok([bandwidth |-> 80, sideband |-> "Part"])
      [] value = 11 -> Ok([bandwidth |-> 160, sideband |-> "None"])
      [] value \in 12..25 -> Ok([bandwidth |-> 160, sideband |-> "Part"])
      [] OTHER -> Err("InvalidFormat")

\* n / d rounded to the nearest whole number
RoundDiv(n, d) == (2 * n + d) \div (2 * d)

\* the 802.11n rates of one spatial stream with the long guard interval, in
\* tenths of a Mbps, by index mod 8
HtBase(bandwidth) ==
    IF bandwidth = 20 THEN <<65, 130, 195, 260, 390, 520, 585, 650>>
    ELSE <<135, 270, 405, 540, 810, 1080, 1215, 1350>>

\* ht_rate: the HT rate table
ht_rate(index, bw, gi) ==
    IF index \notin 0..31 \/ bw.bandwidth \notin {20, 40}
    THEN Err("UnsupportedField")
    ELSE LET long == HtBase(bw.bandwidth)[(index % 8) + 1] * ((index \div 8) + 1)
         IN Ok(IF gi = "Short" THEN RoundDiv(long * 10, 9) ELSE long)

\* data subcarriers of a VHT channel
VhtSubcarriers(bandwidth) ==
    CASE bandwidth = 20 -> 52
      [] bandwidth = 40 -> 108
      [] bandwidth = 80 -> 234
      [] bandwidth = 160 -> 468

\* six times the data bits a subcarrier carries per symbol, by VHT index
VhtBits == <<3, 6, 9, 12, 18, 24, 27, 30, 36, 40>>

\* vht_rate: the VHT rate table; a symbol lasts 4 us with the long guard
\* interval and 3.6 us with the short one
vht_rate(index, bw, gi, nss) ==
    IF index \notin 0..9 \/ nss \notin 1..8 \/ bw.bandwidth \notin {20, 40, 80, 160}
    THEN Err("UnsupportedField")
    ELSE LET bits == VhtSubcarriers(bw.bandwidth) * VhtBits[index + 1] * nss
         IN Ok(IF gi = "Short" THEN RoundDiv(bits * 100, 216)
               ELSE RoundDiv(bits * 10, 24))

\* TimeUnit::new
TimeUnit_new(value) ==
    CASE value = 0 -> Ok("Milliseconds")
      [] value = 1 -> Ok("Microseconds")
      [] value = 2 -> Ok("Nanoseconds")
      [] OTHER -> Err("InvalidFormat")

\* SamplingPosition::from
SamplingPosition_from(value) ==
    CASE value = 0 -> Ok("StartMPDU")
      [] value = 1 -> Ok("StartPLCP")
      [] value = 2 -> Ok("EndPPDU")
      [] value = 3 -> Ok("EndMPDU")
      [] value = 15 -> Ok("Unknown")
      [] OTHER -> Err("InvalidFormat")

----------------------------------------------------------------------------
(* The decoders that use field::ext (src/src/field/mod.rs).                *)

\* Mcs::from_bytes with fec gated by the known bit of format, 0x08
Mcs_from_bytes_fec_gate(data) ==
    LET known == read_u8(data, 0) IN
    IF ~known.ok THEN Err("io")
    ELSE LET flags == read_u8(data, known.pos) IN
    IF ~flags.ok THEN Err("io")
    ELSE LET index == read_u8(data, flags.pos) IN
    IF ~index.ok THEN Err("io")
    ELSE LET bw == IF is_flag_set(known.val, 1)
                   THEN Bandwidth_new(BitAnd(flags.val, 3)) ELSE Ok(None)
    IN IF ~bw.ok THEN Err(bw.err)
    ELSE LET mcs_bw == IF is_flag_set(known.val, 1) THEN Some(bw.val) ELSE None
             mcs_gi == IF is_flag_set(known.val, 4)
                       THEN Some(IF is_flag_set(flags.val, 4) THEN "Short" ELSE "Long")
                       ELSE None
             datarate == IF mcs_bw # None /\ mcs_gi # None
                         THEN ht_rate(index.val, mcs_bw[1], mcs_gi[1])
                         ELSE Ok(None)
    IN IF ~datarate.ok THEN Err(datarate.err)
    ELSE Ok([bw     |-> mcs_bw,
             index  |-> IF is_flag_set(known.val, 2) THEN Some(index.val) ELSE None,
             gi     |-> mcs_gi,
             format |-> IF is_flag_set(known.val, 8)
                        THEN Some(IF is_flag_set(flags.val, 8)
                                  THEN "Greenfield" ELSE "Mixed")
                        ELSE None,
             fec    |-> IF is_flag_set(known.val, 8)
                        THEN Some(IF is_flag_set(flags.val, 16) THEN "Ldpc" ELSE "Bcc")
                        ELSE None,
             stbc   |-> IF is_flag_set(known.val, 32)
                        THEN Some(bits_as_int(flags.val, 5, 2)) ELSE None,
             ness   |-> IF is_flag_set(known.val, 64)
                        THEN Some(BitOr(BitAnd(known.val, ShiftRight(128, 6)),
                                        BitAnd(flags.val, ShiftRight(128, 7))))
                        ELSE None,
             datarate |-> IF mcs_bw # None /\ mcs_gi # None
                          THEN Some(datarate.val) ELSE None])

\* Mcs::from_bytes with the datarate looked up whenever bw is present, the
\* guard interval taken as Long when it is not
Mcs_from_bytes_rate_without_gi(data) ==
    LET known == read_u8(data, 0) IN
    IF ~known.ok THEN Err("io")
    ELSE LET flags == read_u8(data, known.pos) IN
    IF ~flags.ok THEN Err("io")
    ELSE LET index == read_u8(data, flags.pos) IN
    IF ~index.ok THEN Err("io")
    ELSE LET bw == IF is_flag_set(known.val, 1)
                   THEN Bandwidth_new(BitAnd(flags.val, 3)) ELSE Ok(None)
    IN IF ~bw.ok THEN Err(bw.err)
    ELSE LET mcs_bw == IF is_flag_set(known.val, 1) THEN Some(bw.val) ELSE None
             mcs_gi == IF is_flag_set(known.val, 4)
                       THEN Some(IF is_flag_set(flags.val, 4) THEN "Short" ELSE "Long")
                       ELSE None
             datarate == IF mcs_bw # None
                         THEN ht_rate(index.val, mcs_bw[1],
                                      IF mcs_gi # None THEN mcs_gi[1] ELSE "Long")
                         ELSE Ok(None)
    IN IF ~datarate.ok THEN Err(datarate.err)
    ELSE Ok([bw     |-> mcs_bw,
             index  |-> IF is_flag_set(known.val, 2) THEN Some(index.val) ELSE None,
             gi     |-> mcs_gi,
             format |-> IF is_flag_set(known.val, 8)
                        THEN Some(IF is_flag_set(flags.val, 8)
                                  THEN "Greenfield" ELSE "Mixed")
                        ELSE None,
             fec    |-> IF is_flag_set(known.val, 16)
                        THEN Some(IF is_flag_set(flags.val, 16) THEN "Ldpc" ELSE "Bcc")
                        ELSE None,
             stbc   |-> IF is_flag_set(known.val, 32)
                        THEN Some(bits_as_int(flags.val, 5, 2)) ELSE None,
             ness   |-> IF is_flag_set(known.val, 64)
                        THEN Some(BitOr(BitAnd(known.val, ShiftRight(128, 6)),
                                        BitAnd(flags.val, ShiftRight(128, 7))))
                        ELSE None,
             datarate |-> IF mcs_bw # None
                          THEN Some(datarate.val) ELSE None])

\* Mcs::from_bytes that leaves the datarate out when ht_rate rejects the
\* index, instead of failing
Mcs_from_bytes_rate_optional(data) ==
    LET known == read_u8(data, 0) IN
    IF ~known.ok THEN Err("io")
    ELSE LET flags == read_u8(data, known.pos) IN
    IF ~flags.ok THEN Err("io")
    ELSE LET index == read_u8(data, flags.pos) IN
    IF ~index.ok THEN Err("io")
    ELSE LET bw == IF is_flag_set(known.val, 1)
                   THEN Bandwidth_new(BitAnd(flags.val, 3)) ELSE Ok(None)
    IN IF ~bw.ok THEN Err(bw.err)
    ELSE LET mcs_bw == IF is_flag_set(known.val, 1) THEN Some(bw.val) ELSE None
             mcs_gi == IF is_flag_set(known.val, 4)
                       THEN Some(IF is_flag_set(flags.val, 4) THEN "Short" ELSE "Long")
                       ELSE None
             datarate == IF mcs_bw # None /\ mcs_gi # None
                         THEN ht_rate(index.val, mcs_bw[1], mcs_gi[1])
                         ELSE Ok(None)
    IN Ok([bw     |-> mcs_bw,
             index  |-> IF is_flag_set(known.val, 2) THEN Some(index.val) ELSE None,
             gi     |-> mcs_gi,
             format |-> IF is_flag_set(known.val, 8)
                        THEN Some(IF is_flag_set(flags.val, 8)
                                  THEN "Greenfield" ELSE "Mixed")
                        ELSE None,
             fec    |-> IF is_flag_set(known.val, 16)
                        THEN Some(IF is_flag_set(flags.val, 16) THEN "Ldpc" ELSE "Bcc")
                        ELSE None,
             stbc   |-> IF is_flag_set(known.val, 32)
                        THEN Some(bits_as_int(flags.val, 5, 2)) ELSE None,
             ness   |-> IF is_flag_set(known.val, 64)
                        THEN Some(BitOr(BitAnd(known.val, ShiftRight(128, 6)),
                                        BitAnd(flags.val, ShiftRight(128, 7))))
                        ELSE None,
             datarate |-> IF mcs_bw # None /\ mcs_gi # None /\ datarate.ok
                          THEN Some(datarate.val) ELSE None])

\* Mcs::from_bytes.  In Rust >> binds tighter than & and & tighter than |,
\* so known & 0x80 >> 6 | flags & 0x80 >> 7 is (known & 2) | (flags & 1).
Mcs_from_bytes(data) ==
    LET known == read_u8(data, 0) IN
    IF ~known.ok THEN Err("io")
    ELSE LET flags == read_u8(data, known.pos) IN
    IF ~flags.ok THEN Err("io")
    ELSE LET index == read_u8(data, flags.pos) IN
    IF ~index.ok THEN Err("io")
    ELSE LET bw == IF is_flag_set(known.val, 1)
                   THEN Bandwidth_new(BitAnd(flags.val, 3)) ELSE Ok(None)
    IN IF ~bw.ok THEN Err(bw.err)
    ELSE LET mcs_bw == IF is_flag_set(known.val, 1) THEN Some(bw.val) ELSE None
             mcs_gi == IF is_flag_set(known.val, 4)
                       THEN Some(IF is_flag_set(flags.val, 4) THEN "Short" ELSE "Long")
                       ELSE None
             datarate == IF mcs_bw # None /\ mcs_gi # None
                         THEN ht_rate(index.val, mcs_bw[1], mcs_gi[1])
                         ELSE Ok(None)
    IN IF ~datarate.ok THEN Err(datarate.err)
    ELSE Ok([bw     |-> mcs_bw,
             index  |-> IF is_flag_set(known.val, 2) THEN Some(index.val) ELSE None,
             gi     |-> mcs_gi,
             format |-> IF is_flag_set(known.val, 8)
                        THEN Some(IF is_flag_set(flags.val, 8)
                                  THEN "Greenfield" ELSE "Mixed")
                        ELSE None,
             fec    |-> IF is_flag_set(known.val, 16)
                        THEN Some(IF is_flag_set(flags.val, 16) THEN "Ldpc" ELSE "Bcc")
                        ELSE None,
             stbc   |-> IF is_flag_set(known.val, 32)
                        THEN Some(bits_as_int(flags.val, 5, 2)) ELSE None,
             ness   |-> IF is_flag_set(known.val, 64)
                        THEN Some(BitOr(BitAnd(known.val, ShiftRight(128, 6)),
                                        BitAnd(flags.val, ShiftRight(128, 7))))
                        ELSE None,
             datarate |-> IF mcs_bw # None /\ mcs_gi # None
                          THEN Some(datarate.val) ELSE None])

\* the user of slot id in Vht::from_bytes: None when its nss is 0, else the
\* VhtUser, or the error of vht_rate.  user & 0xf0 >> 4 is user & 15, and
\* coding & 2 ^ id is (coding & 2) ^ id.
VhtUser(user, id, flags, coding, bw, gi) ==
    LET nss == BitAnd(user, 15)
        index == BitAnd(user, ShiftRight(240, 4))
        nsts == (nss * Pow2(BitAnd(flags, 1))) % 256
        datarate == IF bw # None /\ gi # None
                    THEN vht_rate(index, bw[1], gi[1], nss) ELSE Ok(None)
    IN IF nss = 0 THEN Ok(None)
       ELSE IF ~datarate.ok THEN Err(datarate.err)
       ELSE Ok(Some([index |-> index,
                     fec |-> IF ShiftRight(BitXor(BitAnd(coding, 2), id), id) = 1
                             THEN "Ldpc" ELSE "Bcc",
                     nss |-> nss,
                     nsts |-> nsts,
                     datarate |-> IF bw # None /\ gi # None
                                  THEN Some(datarate.val) ELSE None]))

\* Vht::from_bytes; Read::read on mcs_nss takes the bytes that are there
Vht_from_bytes(data) ==
    LET known == read_u16_LE(data, 0) IN
    IF ~known.ok THEN Err("io")
    ELSE LET flags == read_u8(data, known.pos) IN
    IF ~flags.ok THEN Err("io")
    ELSE LET bandwidth == read_u8(data, flags.pos) IN
    IF ~bandwidth.ok THEN Err("io")
    ELSE LET n == IF Remaining(data, bandwidth.pos) < 4
                  THEN Remaining(data, bandwidth.pos) ELSE 4
             mcs_nss == [i \in 1..4 |-> IF i <= n THEN data[bandwidth.pos + i] ELSE 0]
             coding == read_u8(data, bandwidth.pos + n)
    IN IF ~coding.ok THEN Err("io")
    ELSE LET group_id == read_u8(data, coding.pos) IN
    IF ~group_id.ok THEN Err("io")
    ELSE LET partial_aid == read_u16_LE(data, group_id.pos) IN
    IF ~partial_aid.ok THEN Err("io")
    ELSE LET Gate(flag, v) == IF is_flag_set(known.val, flag) THEN Some(v) ELSE None
             bw == IF is_flag_set(known.val, 64)
                   THEN Bandwidth_new(BitAnd(bandwidth.val, 31)) ELSE Ok(None)
    IN IF ~bw.ok THEN Err(bw.err)
    ELSE LET vht_bw == IF is_flag_set(known.val, 64) THEN Some(bw.val) ELSE None
             vht_gi == Gate(4, IF BitAnd(flags.val, 4) > 0 THEN "Short" ELSE "Long")
             users == [i \in 1..4 |-> VhtUser(mcs_nss[i], i - 1, flags.val,
                                              coding.val, vht_bw, vht_gi)]
    IN IF \E i \in 1..4 : ~users[i].ok
       THEN Err(users[CHOOSE i \in 1..4 :
                        ~users[i].ok /\ \A j \in 1..(i - 1) : users[j].ok].err)
       ELSE Ok([stbc        |-> Gate(1, is_flag_set(flags.val, 1)),
                txop_ps     |-> Gate(2, is_flag_set(flags.val, 2)),
                gi          |-> vht_gi,
                sgi_nsym_da |-> Gate(8, is_flag_set(flags.val, 8)),
                ldpc_extra  |-> Gate(16, is_flag_set(flags.val, 16)),
                beamformed  |-> Gate(32, is_flag_set(flags.val, 32)),
                bw          |-> vht_bw,
                group_id    |-> Gate(128, group_id.val),
                partial_aid |-> Gate(256, partial_aid.val),
                users       |-> [i \in 1..4 |-> users[i].val]])

\* Timestamp::from_bytes.  unit_position & 0xf0 >> 4 is unit_position & 15.
Timestamp_from_bytes(data) ==
    LET timestamp == read_u64_LE(data, 0) IN
    IF ~timestamp.ok THEN Err("io")
    ELSE LET accuracy == read_u16_LE(data, timestamp.pos) IN
    IF ~accuracy.ok THEN Err("io")
    ELSE LET unit_position == read_u8(data, accuracy.pos) IN
    IF ~unit_position.ok THEN Err("io")
    ELSE LET unit == TimeUnit_new(BitAnd(unit_position.val, 15)) IN
    IF ~unit.ok THEN Err(unit.err)
    ELSE LET position == SamplingPosition_from(
                             BitAnd(unit_position.val, ShiftRight(240, 4))) IN
    IF ~position.ok THEN Err(position.err)
    ELSE LET flags == read_u8(data, unit_position.pos) IN
    IF ~flags.ok THEN Err("io")
    ELSE Ok([timestamp |-> timestamp.val,
             unit      |-> unit.val,
             position  |-> position.val,
             accuracy  |-> IF is_flag_set(flags.val, 2)
                           THEN Some(accuracy.val) ELSE None])

\* from_bytes_some: the decoded field in Some, a decoder's failure under
\* the context ErrorKind::InvalidFormat
from_bytes_some(r) == IF r.ok THEN Ok(Some(r.val)) ELSE Err("InvalidFormat")

\* Radiotap::new / Default: every slot None
Radiotap_new ==
    [tsft |-> None, flags |-> None, rate |-> None, channel |-> None,
     fhss |-> None, antenna_signal |-> None, antenna_noise |-> None,
     lock_quality |-> None, tx_attenuation |-> None,
     tx_attenuation_db |-> None, tx_power |-> None, antenna |-> None,
     antenna_signal_db |-> None, antenna_noise_db |-> None,
     rx_flags |-> None, tx_flags |-> None, rts_retries |-> None,
     data_retries |-> None, xchannel |-> None, mcs |-> None,
     ampdu_status |-> None, vht |-> None, timestamp |-> None]

\* the decoder Radiotap::update runs for a kind (the right-hand sides of its
\* match arms)
Decode(kind, data) ==
    CASE kind = "Tsft" -> Tsft_from_bytes(data)
      [] kind = "Flags" -> Flags_from_bytes(data)
      [] kind = "Rate" -> Rate_from_bytes(data)
      [] kind = "Channel" -> Channel_from_bytes(data)
      [] kind = "Fhss" -> Fhss_from_bytes(data)
      [] kind = "AntennaSignal" -> AntennaSignal_from_bytes(data)
      [] kind = "AntennaNoise" -> AntennaNoise_from_bytes(data)
      [] kind = "LockQuality" -> LockQuality_from_bytes(data)
      [] kind = "TxAttenuation" -> TxAttenuation_from_bytes(data)
      [] kind = "TxAttenuationDb" -> TxAttenuationDb_from_bytes(data)
      [] kind = "TxPower" -> TxPower_from_bytes(data)
      [] kind = "Antenna" -> Antenna_from_bytes(data)
      [] kind = "AntennaSignalDb" -> AntennaSignalDb_from_bytes(data)
      [] kind = "AntennaNoiseDb" -> AntennaNoiseDb_from_bytes(data)
      [] kind = "RxFlags" -> RxFlags_from_bytes(data)
      [] kind = "TxFlags" -> TxFlags_from_bytes(data)
      [] kind = "RtsRetries" -> RtsRetries_from_bytes(data)
      [] kind = "DataRetries" -> DataRetries_from_bytes(data)
      [] kind = "XChannel" -> XChannel_from_bytes(data)
      [] kind = "Mcs" -> Mcs_from_bytes(data)
      [] kind = "AmpduStatus" -> AmpduStatus_from_bytes(data)
      [] kind = "Vht" -> Vht_from_bytes(data)
      [] kind = "Timestamp" -> Timestamp_from_bytes(data)

\* the slot of the record Radiotap::update assigns for a kind
SlotOf(kind) ==
    CASE kind = "Tsft" -> "tsft"
      [] kind = "Flags" -> "flags"
      [] kind = "Rate" -> "rate"
      [] kind = "Channel" -> "channel"
      [] kind = "Fhss" -> "fhss"
      [] kind = "AntennaSignal" -> "antenna_signal"
      [] kind = "AntennaNoise" -> "antenna_noise"
      [] kind = "LockQuality" -> "lock_quality"
      [] kind = "TxAttenuation" -> "tx_attenuation"
      [] kind = "TxAttenuationDb" -> "tx_attenuation_db"
      [] kind = "TxPower" -> "tx_power"
      [] kind = "Antenna" -> "antenna"
      [] kind = "AntennaSignalDb" -> "antenna_signal_db"
      [] kind = "AntennaNoiseDb" -> "antenna_noise_db"
      [] kind = "RxFlags" -> "rx_flags"
      [] kind = "TxFlags" -> "tx_flags"
      [] kind = "RtsRetries" -> "rts_retries"
      [] kind = "DataRetries" -> "data_retries"
      [] kind = "XChannel" -> "xchannel"
      [] kind = "Mcs" -> "mcs"
      [] kind = "AmpduStatus" -> "ampdu_status"
      [] kind = "Vht" -> "vht"
      [] kind = "Timestamp" -> "timestamp"

\* Radiotap::update that fills a slot only while it is None
Radiotap_update_keep_first(self, kind, data) ==
    LET field == from_bytes_some(Decode(kind, data)) IN
    IF ~field.ok THEN Err(field.err)
    ELSE IF self[SlotOf(kind)] # None THEN Ok(self)
    ELSE Ok([self EXCEPT ![SlotOf(kind)] = field.val])

\* Radiotap::update that builds the record anew around the decoded field
Radiotap_update_reset_others(self, kind, data) ==
    LET field == from_bytes_some(Decode(kind, data)) IN
    IF ~field.ok THEN Err(field.err)
    ELSE Ok([Radiotap_new EXCEPT ![SlotOf(kind)] = field.val])

\* Radiotap::update: Ok(the record after the update) or the decoder's error;
\* the slot is assigned only after from_bytes_some has returned Ok
Radiotap_update(self, kind, data) ==
    LET field == from_bytes_some(Decode(kind, data)) IN
    IF ~field.ok THEN Err(field.err)
    ELSE Ok([self EXCEPT ![SlotOf(kind)] = field.val])

----------------------------------------------------------------------------
(* The captures the model parses.                                          *)

\* presence words, as sets of set bits: bit 31 is the chain bit, bit 30
\* announces a vendor namespace, bit 29 the return to the default namespace
WordSet ==
    { {2, 30},          \* Rate, then a vendor namespace
      {29},             \* back to the default namespace
      {2, 31},          \* Rate
      {0, 23, 31} }     \* Tsft, a bit no kind is defined for

\* the four bytes of a presence word, little-endian
WordBytes(w) ==
    LET ByteAt(i) ==
            LET RECURSIVE Sum(_)
                Sum(j) == IF j > 7 THEN 0
                          ELSE (IF (8 * i + j) \in w THEN Pow2(j) ELSE 0) + Sum(j + 1)
            IN Sum(0)
    IN <<ByteAt(0), ByteAt(1), ByteAt(2), ByteAt(3)>>

RECURSIVE WordsBytes(_)
WordsBytes(ws) ==
    IF ws = <<>> THEN <<>> ELSE WordBytes(Head(ws)) \o WordsBytes(Tail(ws))

\* two payloads for a word flagging Rate and a vendor namespace.  The
\* first: Rate 2, a pad byte, a descriptor announcing 1 byte to skip, that
\* byte, Rate 4.  The second: Rate 4, a pad byte, a descriptor announcing
\* 258 bytes, more than any capture here holds.
PayloadSet ==
    { <<2, 0, 16, 2, 158, 9, 1, 0, 7, 4, 108, 9>>,
      <<4, 2, 0, 0, 0, 0, 2, 1, 130, 0, 6, 1>> }

\* the first n bytes of a payload, zero beyond the bytes written above
PayloadBytes(p, n) == [i \in 1..n |-> IF i <= Len(p) THEN p[i] ELSE 0]

\* a capture of n bytes: version, pad, the length field len, the presence
\* words ws and payload p, cut after n bytes
Capture(version, len, ws, p, n) ==
    LET full == <<version, 0, len % 256, len \div 256>> \o WordsBytes(ws)
                \o PayloadBytes(p, MaxPayload)
    IN SubSeq(full, 1, n)

\* the sequences of at most MaxWords presence words
WordSeqs == UNION {[1..k -> WordSet] : k \in 0..MaxWords}

\* the captures of the tests good_vendor, bad_version, bad_header_length,
\* bad_actual_length and bad_vendor
GoodVendor ==
    <<0, 0, 39, 0, 46, 72, 0, 192, 0, 0, 0, 128, 0, 0, 0, 160, 4, 0, 0, 0,
      16, 2, 158, 9, 160, 0, 227, 5, 0, 0, 255, 255, 255, 255, 2, 0, 222,
      173, 4>>
BadVersion == [GoodVendor EXCEPT ![1] = 1]
BadHeaderLength == [GoodVendor EXCEPT ![3] = 40]
BadActualLength == [GoodVendor EXCEPT ![5] = 47]
BadVendor == [SubSeq(GoodVendor, 1, 34) EXCEPT ![3] = 34]

TestCaptures ==
    {GoodVendor, BadVersion, BadHeaderLength, BadActualLength, BadVendor}

\* the length fields tried for a capture of n bytes
LengthSet(n) == {l \in {n - 1, n, n + 1, 260} : l >= 0}

\* the captures built from the presence words ws: every version in vs, every
\* payload, every cut n up to maxn, every length field tried for n
CapturesOf(vs, ws, maxn) ==
    UNION { { Capture(version, len, ws, p, n) :
                version \in vs, len \in LengthSet(n), p \in PayloadSet } :
            n \in 0..maxn }

Captures ==
    TestCaptures
    \cup UNION { CapturesOf({0}, ws, 4 + 4 * Len(ws) + MaxPayload) : ws \in WordSeqs }
    \cup UNION { CapturesOf({1}, ws, 4 + 4 * Len(ws)) : ws \in WordSeqs }

----------------------------------------------------------------------------
(* The state machine: Header::from_bytes, then the iteration driver.       *)

\* a driver step: op is "decode" (a field handed to its decoder),
\* "unknown" (a bit no kind is defined for), "skipped" (a bit of an unknown
\* vendor namespace), "reset" (bit 29) or "vendor" (bit 30); bit is the
\* presence bit, pos the cursor before the step, [start, end) the bytes of
\* the field or of the vendor descriptor, data those bytes, skip the
\* descriptor's skip_length, ok whether the step succeeded
Step(op, kind, b, pos, start, end) ==
    [op |-> op, kind |-> kind, bit |-> b, pos |-> pos, start |-> start,
     end |-> end, data |-> <<>>, skip |-> 0, ok |-> TRUE]

\* no function is called on its own while a capture is parsed
NoCall ==
    [fn |-> "none", kind |-> "", data |-> <<>>, pos |-> 0, align |-> 1, value |-> 0,
     self |-> Radiotap_new]

\* a call that has not returned; one that has, with what it returned
NotReturned == [done |-> FALSE]
Returned(out) == [done |-> TRUE, out |-> out]

Init ==
    /\ input \in Captures
    /\ pc = "start"
    /\ err = "None"
    /\ header = NoHeader
    /\ cursor = 0
    /\ bit = 0
    /\ vendor = "Default"
    /\ radiotap = Radiotap_new
    /\ steps = <<>>
    /\ call = NoCall
    /\ ret = NotReturned

\* Header::from_bytes on the capture
ParseHeader ==
    /\ pc = "start"
    /\ LET r == Header_from_bytes(input) IN
         IF r.ok
         THEN /\ header' = r.val
              /\ pc' = "parsed"
              /\ err' = "None"
         ELSE /\ header' = header
              /\ pc' = "error"
              /\ err' = r.err
    /\ UNCHANGED <<call, ret, input, cursor, bit, vendor, radiotap, steps>>

\* the part of the capture the driver's cursor runs over:
\* input.split_at(header.length).0
CaptureData == SubSeq(input, 1, header.length)

\* the driver starts: cursor at header.size, default namespace, bit 0
StartDriver ==
    /\ pc = "parsed"
    /\ pc' = "iter"
    /\ cursor' = header.size
    /\ bit' = 0
    /\ vendor' = "Default"
    /\ UNCHANGED <<call, ret, input, err, header, radiotap, steps>>

\* the presence bits the driver looks at, from index b on: bits 0..30 of
\* every word, set
SetBits(b) ==
    {i \in b..(32 * Len(header.present) - 1) :
        /\ i % 32 # 31
        /\ (i % 32) \in header.present[(i \div 32) + 1]}

\* the next set presence bit from index b on
NextBit(b) == CHOOSE i \in SetBits(b) : \A j \in SetBits(b) : i <= j

\* the parse fails with an error kind at a step
Fail(kind, step) ==
    /\ pc' = "error"
    /\ err' = kind
    /\ steps' = Append(steps, [step EXCEPT !.ok = FALSE])
    /\ UNCHANGED <<call, ret, input, header, cursor, bit, vendor, radiotap>>

\* a field of the default namespace: align, slice, decode, advance
DecodeField ==
    /\ pc = "iter"
    /\ SetBits(bit) # {}
    /\ LET b == NextBit(bit)
           kind == RadiotapKind_from_bit(b % 32)
       IN /\ b % 32 < 29
          /\ vendor = "Default"
          /\ kind.ok
          /\ LET start == Cursor_align(cursor, RadiotapKind_align(kind.val))
                 end == start + RadiotapKind_size(kind.val)
                 step == Step("decode", kind.val, b, cursor, start, end)
             IN IF end > Len(CaptureData)
                THEN Fail("IncompleteError", step)
                ELSE LET data == SubSeq(CaptureData, start + 1, end)
                         r == Radiotap_update(radiotap, kind.val, data)
                     IN IF ~r.ok
                        THEN Fail(r.err, [step EXCEPT !.data = data])
                        ELSE /\ radiotap' = r.val
                             /\ cursor' = end
                             /\ bit' = b + 1
                             /\ steps' = Append(steps, [step EXCEPT !.data = data])
                             /\ UNCHANGED <<call, ret, input, pc, err, header, vendor>>

\* a set bit of the default namespace that RadiotapKind::from_bit rejects:
\* no kind, hence no alignment and no size; the bit is passed over
UnknownField ==
    /\ pc = "iter"
    /\ SetBits(bit) # {}
    /\ LET b == NextBit(bit) IN
          /\ b % 32 < 29
          /\ vendor = "Default"
          /\ ~RadiotapKind_from_bit(b % 32).ok
          /\ bit' = b + 1
          /\ steps' = Append(steps, Step("unknown", "", b, cursor, cursor, cursor))
    /\ UNCHANGED <<call, ret, input, pc, err, header, cursor, vendor, radiotap>>

\* a set bit met while the active namespace is an unknown vendor's: skipped
SkipField ==
    /\ pc = "iter"
    /\ SetBits(bit) # {}
    /\ LET b == NextBit(bit) IN
          /\ b % 32 < 29
          /\ vendor = "Unknown"
          /\ bit' = b + 1
          /\ steps' = Append(steps, Step("skipped", "", b, cursor, cursor, cursor))
    /\ UNCHANGED <<call, ret, input, pc, err, header, cursor, vendor, radiotap>>

\* bit 29: back to the default namespace
ResetNamespace ==
    /\ pc = "iter"
    /\ SetBits(bit) # {}
    /\ LET b == NextBit(bit) IN
          /\ b % 32 = 29
          /\ vendor' = "Default"
          /\ bit' = b + 1
          /\ steps' = Append(steps, Step("reset", "", b, cursor, cursor, cursor))
    /\ UNCHANGED <<call, ret, input, pc, err, header, cursor, radiotap>>

\* bit 30: align to 2, read the 6-byte vendor namespace descriptor, and, no
\* vendor namespace being registered, skip the skip_length bytes it announces
VendorField ==
    /\ pc = "iter"
    /\ SetBits(bit) # {}
    /\ LET b == NextBit(bit) IN
          /\ b % 32 = 30
          /\ LET start == Cursor_align(cursor, 2)
                 end == start + 6
                 step == Step("vendor", "", b, cursor, start, end)
             IN IF end > Len(CaptureData)
                THEN Fail("IncompleteError", step)
                ELSE LET data == SubSeq(CaptureData, start + 1, end)
                         vns == VendorNamespace_from_bytes(data)
                     IN IF ~vns.ok
                        THEN Fail("InvalidFormat", [step EXCEPT !.data = data])
                        ELSE LET read == [step EXCEPT !.data = data,
                                                      !.skip = vns.val.skip_length]
                             IN IF end + vns.val.skip_length > Len(CaptureData)
                                THEN Fail("IncompleteError", read)
                                ELSE /\ cursor' = end + vns.val.skip_length
                                     /\ vendor' = "Unknown"
                                     /\ bit' = b + 1
                                     /\ steps' = Append(steps, read)
                                     /\ UNCHANGED <<call, ret, input, pc, err, header, radiotap>>

\* no set bit is left: the parse returns the record
Finish ==
    /\ pc = "iter"
    /\ SetBits(bit) = {}
    /\ pc' = "done"
    /\ UNCHANGED <<call, ret, input, err, header, cursor, bit, vendor, radiotap, steps>>

Next ==
    \/ ParseHeader
    \/ StartDriver
    \/ DecodeField
    \/ UnknownField
    \/ SkipField
    \/ ResetNamespace
    \/ VendorField
    \/ Finish

Spec == Init /\ [][Next]_vars

----------------------------------------------------------------------------
(* The functions of the crate called on their own: a field decoder on a   *)
(* slice (field::from_bytes_some), Align::align on a cursor position,      *)
(* RadiotapKind::from_bit with align and size of the kind it returns, and  *)
(* Radiotap::update on a record.                                           *)

\* byte strings the decoders are run on, each cut to every length up to
\* MaxSlice; the first decodes as a Vht with bw, gi and one user and as a
\* Timestamp in milliseconds, the second holds the bytes 1, 2, 3, ...
SlicePatterns ==
    { <<68, 0, 4, 4, 145, 0, 0, 0, 1, 0, 0, 0>>,
      <<1, 2, 3, 4, 5, 6, 7, 8, 9, 10, 11, 12>> }

\* the flags and index bytes tried in an Mcs field
McsFlagsSet == {0, 1, 2, 3, 4, 8, 16, 32, 64, 96, 128, 255}
McsIndexSet == {7, 31, 32}

\* the mcs_nss bytes, known and flags bytes tried in a Vht field (every
\* coding byte below 16 is tried with them), bandwidth byte 4 (80 MHz)
VhtUsersSet ==
    { <<0, 0, 0, 0>>, <<145, 0, 0, 0>>, <<18, 33, 0, 0>>, <<17, 34, 51, 68>>,
      <<0, 0, 0, 169>> }
VhtKnownSet == {0, 68}
VhtFlagsSet == {4, 5}

\* the unit_position and flags bytes tried in a Timestamp field
TimestampUnitPositionSet == {0, 1, 2, 3, 15, 16, 17, 33, 50, 64, 240, 242}
TimestampFlagsSet == {0, 2, 3, 253}

\* the delimiter CRC bytes tried in an AmpduStatus field, with every low
\* flags byte below 64
AmpduCrcSet == {0, 90}

\* the slices a decoder of a kind is run on
Slices(kind) ==
    { PayloadBytes(p, n) : p \in SlicePatterns, n \in 0..MaxSlice }
    \cup (IF kind = "Rate"
          THEN { <<b>> : b \in 0..255 }
          ELSE IF kind = "Mcs"
          THEN { <<k, f, i>> : k \in 0..255, f \in McsFlagsSet, i \in McsIndexSet }
               \cup { <<k, f>> : k \in {0, 7}, f \in {0, 4} }
          ELSE IF kind = "Vht"
          THEN { <<k, 0, f, 4>> \o u \o <<c, 0, 0, 0>> :
                   k \in VhtKnownSet, f \in VhtFlagsSet, u \in VhtUsersSet,
                   c \in 0..15 }
          ELSE IF kind = "Timestamp"
          THEN { <<1, 2, 3, 4, 5, 6, 7, 8, 9, 10, up, f>> :
                   up \in TimestampUnitPositionSet, f \in TimestampFlagsSet }
          ELSE IF kind = "AmpduStatus"
          THEN { <<1, 2, 3, 4, f, 0, c, 0>> : f \in 0..63, c \in AmpduCrcSet }
               \cup { <<1, 2, 3, 4, f, 1, 90>> : f \in {0, 32, 48} }
          ELSE {})

FromBytesCalls ==
    UNION { { [NoCall EXCEPT !.fn = "from_bytes_some", !.kind = RadiotapKind[k],
                             !.data = d] : d \in Slices(RadiotapKind[k]) } :
            k \in 1..Len(RadiotapKind) }

AlignCalls ==
    { [NoCall EXCEPT !.fn = "align", !.pos = p, !.align = n] :
        p \in 0..MaxPos, n \in {1, 2, 4, 8} }

FromBitCalls ==
    { [NoCall EXCEPT !.fn = "from_bit", !.value = v] : v \in 0..255 }

\* the record after Radiotap::update has been called on self for every kind
\* from k on, each on the first size() bytes of p; a call that returns an
\* error leaves the record as it was
RECURSIVE UpdateAll(_, _, _)
UpdateAll(self, k, p) ==
    IF k > Len(RadiotapKind) THEN self
    ELSE LET r == Radiotap_update(self, RadiotapKind[k],
                      PayloadBytes(p, RadiotapKind_size(RadiotapKind[k])))
         IN UpdateAll(IF r.ok THEN r.val ELSE self, k + 1, p)

\* the records Radiotap::update is called on: the new one, and one with
\* every slot filled
UpdateSelves ==
    { Radiotap_new,
      UpdateAll(Radiotap_new, 1, <<68, 0, 4, 4, 145, 0, 0, 0, 1, 0, 0, 0>>) }

UpdateCalls ==
    { [NoCall EXCEPT !.fn = "update", !.self = s, !.kind = RadiotapKind[k],
                     !.data = PayloadBytes(p, n)] :
        s \in UpdateSelves, k \in 1..Len(RadiotapKind), p \in SlicePatterns,
        n \in 0..MaxSlice }

FieldInit ==
    /\ call \in FromBytesCalls \cup AlignCalls \cup FromBitCalls \cup UpdateCalls
    /\ ret = NotReturned
    /\ input = <<>>
    /\ pc = "call"
    /\ err = "None"
    /\ header = NoHeader
    /\ cursor = 0
    /\ bit = 0
    /\ vendor = "Default"
    /\ radiotap = call.self
    /\ steps = <<>>

\* field::from_bytes_some::<K>(data), K the struct of the kind
CallFromBytes ==
    /\ call.fn = "from_bytes_some"
    /\ ~ret.done
    /\ ret' = Returned(from_bytes_some(Decode(call.kind, call.data)))
    /\ UNCHANGED <<call, input, pc, err, header, cursor, bit, vendor, radiotap, steps>>

\* cursor.align(align) on a cursor at position pos: the position after
CallAlign ==
    /\ call.fn = "align"
    /\ ~ret.done
    /\ ret' = Returned(Cursor_align(call.pos, call.align))
    /\ UNCHANGED <<call, input, pc, err, header, cursor, bit, vendor, radiotap, steps>>

\* RadiotapKind::from_bit(value) and, of the kind returned, align() and size()
CallFromBit ==
    /\ call.fn = "from_bit"
    /\ ~ret.done
    /\ LET kind == RadiotapKind_from_bit(call.value) IN
         ret' = Returned(IF kind.ok
                         THEN [ok |-> TRUE, val |-> kind.val,
                               align |-> RadiotapKind_align(kind.val),
                               size |-> RadiotapKind_size(kind.val)]
                         ELSE kind)
    /\ UNCHANGED <<call, input, pc, err, header, cursor, bit, vendor, radiotap, steps>>

\* self.update(kind, data): the record radiotap is self, assigned in place
\* when the decoder returns Ok and not touched when ? returns its error
CallUpdate ==
    /\ call.fn = "update"
    /\ ~ret.done
    /\ LET r == Radiotap_update(radiotap, call.kind, call.data) IN
         /\ radiotap' = IF r.ok THEN r.val ELSE radiotap
         /\ ret' = Returned(IF r.ok THEN Ok(<<>>) ELSE r)
    /\ UNCHANGED <<call, input, pc, err, header, cursor, bit, vendor, steps>>

FieldNext ==
    \/ CallFromBytes
    \/ CallAlign
    \/ CallFromBit
    \/ CallUpdate

FieldSpec == FieldInit /\ [][FieldNext]_vars

----------------------------------------------------------------------------
(* Properties of the header parser.                                        *)

\* the length a capture declares: byte[2] + 256 * byte[3], 0-based
DeclaredLength(data) == data[3] + 256 * data[4]

\* Header::from_bytes has returned a header
HeaderReturned == pc \in {"parsed", "iter", "done"} \/ steps # <<>>

\* the capture holds, at offset 4 + 4k, a whole presence word with bit 31 clear
Terminated(data) ==
    \E k \in 0..(Len(data) \div 4) :
        /\ 4 + 4 * (k + 1) <= Len(data)
        /\ 31 \notin BitsLE(data, 4 + 4 * k, 4)

\* C1: header parsing of a non-empty input whose first byte is not 0 fails
\* with UnsupportedVersion, whatever the other bytes and the input's length
C1_UnsupportedVersion ==
    (pc # "start" /\ Len(input) >= 1 /\ input[1] # 0)
        => (pc = "error" /\ err = "UnsupportedVersion")

\* an input of fewer than 4 bytes was rejected for its version
C1_Witness ==
    /\ pc = "error"
    /\ err = "UnsupportedVersion"
    /\ Len(input) \in 1..3

\* C2: for an input of at least 4 bytes with version 0, header parsing fails
\* with InvalidLength exactly when the input is shorter than the declared
\* length byte[2] + 256 * byte[3]
C2_InvalidLength ==
    (pc # "start" /\ Len(input) >= 4 /\ input[1] = 0)
        => ((pc = "error" /\ err = "InvalidLength")
              <=> Len(input) < DeclaredLength(input))

\* an input was rejected for a declared length whose high byte decides
C2_Witness ==
    /\ pc = "error"
    /\ err = "InvalidLength"
    /\ Len(input) >= 4
    /\ input[4] # 0
    /\ input[3] <= Len(input)

\* C3: a returned header holds the presence words of the input in order, up
\* to and including the first whose bit 31 is clear: every word but the last
\* has bit 31 set, the last has it clear
C3_PresenceChain ==
    HeaderReturned =>
        LET n == Len(header.present) IN
        /\ n >= 1
        /\ \A i \in 1..n : header.present[i] = BitsLE(input, 4 * i, 4)
        /\ \A i \in 1..(n - 1) : 31 \in header.present[i]
        /\ 31 \notin header.present[n]

\* C4: with version 0 and a sufficient declared length, header parsing fails
\* with IoError when the input ends before a whole presence word with bit 31
\* clear; no returned header has an unterminated chain or a size beyond the
\* input
C4_IoErrorBeforeTerminator ==
    /\ (/\ pc # "start"
        /\ Len(input) >= 4
        /\ input[1] = 0
        /\ Len(input) >= DeclaredLength(input)
        /\ ~Terminated(input))
           => (pc = "error" /\ err = "IoError")
    /\ HeaderReturned =>
           /\ 31 \notin header.present[Len(header.present)]
           /\ header.size <= Len(input)

----------------------------------------------------------------------------
(* Properties of the iteration driver.                                     *)

\* the smallest multiple of n that is at least p
AlignUp(p, n) == CHOOSE m \in p..(p + n - 1) : m % n = 0

\* the skip_length announced by the vendor descriptor at offset s of the
\* capture (0-based): its bytes 4 and 5, little-endian
AnnouncedSkip(s) == input[s + 5] + 256 * input[s + 6]

StepIds == 1..Len(steps)

\* the parse has failed with IncompleteError at step i
IncompleteAt(i) ==
    /\ pc = "error"
    /\ err = "IncompleteError"
    /\ i = Len(steps)
    /\ ~steps[i].ok

\* C5: the parse fails with IncompleteError when a present field's aligned
\* start plus its size exceeds header.length, and when a vendor descriptor or
\* the bytes it announces to skip run past header.length; no byte at or
\* beyond header.length is handed to a decoder
C5_IncompleteError ==
    /\ \A i \in StepIds :
        LET st == steps[i] IN
        /\ st.op = "decode" =>
              /\ AlignUp(st.pos, RadiotapKind_align(st.kind))
                    + RadiotapKind_size(st.kind) > header.length
                 => IncompleteAt(i)
              /\ st.data # <<>> => st.start + Len(st.data) <= header.length
        /\ st.op = "vendor" =>
              LET e0 == AlignUp(st.pos, 2) + 6 IN
              /\ e0 > header.length => IncompleteAt(i)
              /\ (e0 <= header.length /\ e0 + AnnouncedSkip(e0 - 6) > header.length)
                 => IncompleteAt(i)
    \* the tests bad_actual_length and bad_vendor
    /\ (input \in {BadActualLength, BadVendor} /\ pc \in {"done", "error"})
          => (pc = "error" /\ err = "IncompleteError")

\* a vendor descriptor lay inside header.length, the bytes it announced did
\* not, and the parse failed with IncompleteError
C5_Witness ==
    /\ steps # <<>>
    /\ IncompleteAt(Len(steps))
    /\ steps[Len(steps)].op = "vendor"
    /\ steps[Len(steps)].end <= header.length
    /\ \E i \in StepIds : steps[i].op = "decode" /\ steps[i].ok

\* C6: the bytes handed to a decoder are [start, start + size(kind)) of the
\* capture, with header.size <= start and start + size(kind) <= header.length
C6_FieldRange ==
    \A i \in StepIds :
        LET st == steps[i] IN
        (st.op = "decode" /\ st.ok) =>
            /\ header.size <= st.start
            /\ st.start + RadiotapKind_size(st.kind) <= header.length
            /\ Len(st.data) = RadiotapKind_size(st.kind)
            /\ st.data = SubSeq(input, st.start + 1,
                                st.start + RadiotapKind_size(st.kind))

\* a parse succeeded in which a field was decoded beyond header.size
C6_Witness ==
    /\ pc = "done"
    /\ \E i \in StepIds :
          /\ steps[i].op = "decode"
          /\ steps[i].start > header.size
          /\ steps[i].end = header.length

\* C7: at every decode the cursor, counted from offset 0 of the capture, is a
\* multiple of the alignment of the kind decoded
C7_AlignmentLaw ==
    \A i \in StepIds :
        LET st == steps[i] IN
        (st.op = "decode" /\ st.ok) =>
            /\ st.start % RadiotapKind_align(st.kind) = 0
            /\ st.start >= st.pos
            /\ st.start - st.pos < RadiotapKind_align(st.kind)

\* a field was decoded at a position the alignment moved the cursor to, and
\* that is aligned from offset 0 but not from the start of the payload
C7_Witness ==
    \E i \in StepIds :
        /\ steps[i].op = "decode"
        /\ steps[i].ok
        /\ steps[i].start > steps[i].pos
        /\ (steps[i].start - header.size) % RadiotapKind_align(steps[i].kind) # 0

\* the cursor after step i
CursorAfter(i) == IF i = Len(steps) THEN cursor ELSE steps[i + 1].pos

\* C8: a vendor namespace descriptor that fits, with the skip_length bytes it
\* announces, is read at the next multiple of 2, takes 6 bytes, and moves the
\* cursor by exactly skip_length more, without an error; the next field
\* decoded starts there, aligned for its kind
C8_SkipLaw ==
    \A i \in StepIds :
        LET st == steps[i]
            s0 == AlignUp(st.pos, 2)
        IN (st.op = "vendor" /\ s0 + 6 <= header.length
              /\ s0 + 6 + AnnouncedSkip(s0) <= header.length) =>
            /\ st.ok
            /\ st.start = s0
            /\ st.end = s0 + 6
            /\ CursorAfter(i) = s0 + 6 + AnnouncedSkip(s0)
            /\ \A j \in StepIds :
                 (/\ j > i
                  /\ steps[j].op = "decode"
                  /\ \A k \in (i + 1)..(j - 1) : steps[k].op \notin {"decode", "vendor"})
                 => steps[j].start = AlignUp(s0 + 6 + AnnouncedSkip(s0),
                                             RadiotapKind_align(steps[j].kind))

\* a vendor section of at least one byte was skipped and a field decoded
\* right after it, in a parse that succeeded
C8_Witness ==
    /\ pc = "done"
    /\ \E i, j \in StepIds :
          /\ i < j
          /\ steps[i].op = "vendor"
          /\ steps[i].skip >= 1
          /\ steps[j].op = "decode"
          /\ steps[j].pos = steps[i].end + steps[i].skip

\* the set presence bits of the header, as indices across the chain
PresentBits(n) ==
    {i \in 0..(32 * Len(header.present) - 1) :
        i % 32 = n /\ n \in header.present[(i \div 32) + 1]}

\* presence bit b lies in an unknown vendor namespace: a set bit 30 precedes
\* it with no set bit 29 in between
InVendor(b) ==
    \E v \in PresentBits(30) :
        /\ v < b
        /\ \A r \in PresentBits(29) : ~(v < r /\ r < b)

\* C9: from a set bit 30 on no presence bit is decoded into the record until
\* a set bit 29 is met; from then on fields are decoded as fields of the
\* default namespace again, and so the capture of the test good_vendor parses
\* and has the Rate flagged in its fourth presence word decoded (2.0 Mbps)
C9_NamespaceSwitching ==
    /\ \A i \in StepIds :
          /\ steps[i].op = "decode" => ~InVendor(steps[i].bit)
          /\ steps[i].op = "skipped" => InVendor(steps[i].bit)
    /\ (input = GoodVendor /\ pc \in {"done", "error"}) =>
          /\ pc = "done"
          /\ Len(header.present) = 4
          /\ radiotap.rate = Some([value |-> HalfOf(4)])

\* the decode steps of a kind that succeeded
DecodesOf(kind) ==
    {i \in StepIds : steps[i].op = "decode" /\ steps[i].ok /\ steps[i].kind = kind}

Max(S) == CHOOSE m \in S : \A x \in S : x <= m

\* C10: the slot of a kind decoded more than once holds the value of the last
\* occurrence; Rate bytes 2 and then 4 leave the rate 2.0 Mbps, not 1.0
C10_LastOccurrenceWins ==
    \A n \in 1..Len(RadiotapKind) :
        LET kind == RadiotapKind[n] IN
        DecodesOf(kind) # {} =>
            LET data == steps[Max(DecodesOf(kind))].data IN
            /\ radiotap[SlotOf(kind)] = Some(Decode(kind, data).val)
            /\ (kind = "Rate" /\ data = <<4>>)
                  => radiotap.rate = Some([value |-> [halves |-> 4]])

\* a parse succeeded that decoded Rate twice, from byte 2 and then from byte 4
C10_Witness ==
    /\ pc = "done"
    /\ \E i, j \in DecodesOf("Rate") :
          /\ i < j
          /\ steps[i].data = <<2>>
          /\ steps[j].data = <<4>>
          /\ j = Max(DecodesOf("Rate"))
    /\ radiotap.rate = Some([value |-> [halves |-> 4]])

\* C12: a set bit 23..28 met in the default namespace does not end the
\* parse: the namespace declares an alignment and a size for it, the cursor
\* moves past the field's bytes, and the parse goes on to the bits after it
C12_UnknownFieldSkipped ==
    \A i \in StepIds :
        LET st == steps[i]
            kind == RadiotapKind_from_bit(st.bit % 32)
        IN st.op = "unknown" =>
            /\ st.ok
            /\ kind.ok
            /\ CursorAfter(i) = AlignUp(st.pos, RadiotapKind_align(kind.val))
                                + RadiotapKind_size(kind.val)
            /\ CursorAfter(i) > st.pos

----------------------------------------------------------------------------
(* Properties of the field decoders and of the default namespace.          *)

\* C11: the decoder of every kind K of the default namespace fails with
\* InvalidFormat on every slice shorter than size(K)
C11_ShortSliceInvalidFormat ==
    (/\ call.fn = "from_bytes_some"
     /\ ret.done
     /\ Len(call.data) < RadiotapKind_size(call.kind))
        => ret.out = Err("InvalidFormat")

\* the kinds of the default namespace in the order of their bits 0..22
C13_Order ==
    <<"Tsft", "Flags", "Rate", "Channel", "Fhss", "AntennaSignal",
      "AntennaNoise", "LockQuality", "TxAttenuation", "TxAttenuationDb",
      "TxPower", "Antenna", "AntennaSignalDb", "AntennaNoiseDb", "RxFlags",
      "TxFlags", "RtsRetries", "DataRetries", "XChannel", "Mcs",
      "AmpduStatus", "Vht", "Timestamp">>

\* C13: from_bit maps the bits 0..22 to the 23 kinds, each to its own, in
\* that order, and fails with the error kind UnsupportedField for every
\* value from 23 on
C13_KindFromBit ==
    /\ Cardinality({C13_Order[i] : i \in 1..23}) = 23
    /\ (call.fn = "from_bit" /\ ret.done) =>
          IF call.value <= 22
          THEN ret.out = Ok(C13_Order[call.value + 1])
          ELSE ret.out = Err("UnsupportedField")

\* C14: every kind of the default namespace has an alignment of 1, 2, 4 or
\* 8 and a size above 0; Flags and Rate have size 1, Mcs 3, Channel 4, Tsft,
\* XChannel and AmpduStatus 8, Vht and Timestamp 12
C14_AlignAndSize ==
    (call.fn = "from_bit" /\ ret.done /\ ret.out.ok) =>
        /\ ret.out.align \in {1, 2, 4, 8}
        /\ ret.out.size > 0
        /\ ret.out.val \in {"Flags", "Rate"} => ret.out.size = 1
        /\ ret.out.val = "Mcs" => ret.out.size = 3
        /\ ret.out.val = "Channel" => ret.out.size = 4
        /\ ret.out.val \in {"Tsft", "XChannel", "AmpduStatus"} => ret.out.size = 8
        /\ ret.out.val \in {"Vht", "Timestamp"} => ret.out.size = 12

\* from_bit has returned Mcs, whose size is 3 and alignment 1
C14_Witness ==
    /\ call.fn = "from_bit"
    /\ call.value = 19
    /\ ret.done
    /\ ret.out.ok
    /\ ret.out.val = "Mcs"
    /\ ret.out.size = 3
    /\ ret.out.align = 1

\* C15: align(n), n one of 1, 2, 4, 8, moves a cursor at pos to the smallest
\* multiple of n that is at least pos: never back, by fewer than n bytes,
\* not at all from a multiple of n, so that aligning twice is aligning once
C15_AlignSmallestMultiple ==
    (call.fn = "align" /\ ret.done) =>
        LET pos == call.pos
            n == call.align
            new == ret.out
        IN /\ new % n = 0
           /\ new >= pos
           /\ new - pos < n
           /\ \A m \in pos..new : m % n = 0 => m = new
           /\ pos % n = 0 => new = pos
           /\ Cursor_align(new, n) = new

\* a cursor beyond position 8 was moved by 7 bytes to a multiple of 8
C15_Witness ==
    /\ call.fn = "align"
    /\ ret.done
    /\ call.align = 8
    /\ call.pos > 8
    /\ ret.out = call.pos + 7

\* C16: a returned header has at least one presence word and its size is
\* the offset after the last of them, 4 + 4 * (number of presence words),
\* where the driver starts to read the fields
C16_HeaderSize ==
    HeaderReturned =>
        /\ Len(header.present) >= 1
        /\ header.size = 4 + 4 * Len(header.present)
        /\ pc \in {"iter", "done"} /\ steps = <<>> => cursor = header.size
        /\ steps # <<>> => steps[1].pos = header.size

\* a header of three presence words was returned and a field decoded at
\* offset 16
C16_Witness ==
    /\ HeaderReturned
    /\ Len(header.present) = 3
    /\ header.size = 16
    /\ steps # <<>>
    /\ steps[1].op = "decode"
    /\ steps[1].ok
    /\ steps[1].start = 16

\* C17: the cursor starts at header.size and never moves back: over the
\* steps of a parse, failed or not, the position before a step, the aligned
\* start, the end of the field or descriptor and the position after the
\* step (past the bytes a vendor descriptor announces) never decrease
C17_CursorMonotone ==
    /\ pc \in {"iter", "done"} => cursor >= header.size
    /\ \A i \in StepIds :
          LET st == steps[i] IN
          /\ header.size <= st.pos
          /\ st.pos <= st.start
          /\ st.start <= st.end
          /\ st.pos <= CursorAfter(i)
          /\ st.ok => st.end + st.skip = CursorAfter(i)
          /\ \A j \in StepIds : i < j => st.pos <= steps[j].pos

\* a parse in which the cursor was moved by an alignment, by a field and by
\* the bytes a vendor descriptor announced
C17_Witness ==
    /\ pc = "done"
    /\ \E i, j, k \in StepIds :
          /\ i < j
          /\ j < k
          /\ steps[i].op = "decode"
          /\ steps[j].op = "vendor"
          /\ steps[j].start > steps[j].pos
          /\ steps[j].skip >= 1
          /\ steps[k].op = "decode"
          /\ steps[k].end > steps[j].end + steps[j].skip

\* the number a byte stands for in two's complement
C18_Signed(b) == IF b >= 128 THEN b - 256 ELSE b

\* C18: the Rate decoder takes its byte as a signed 8-bit number raw and
\* gives raw / 2 Mbps, raw halves of a Mbps: byte 4 gives 2.0, the bytes
\* 128..255 give the negative rates -64.0 .. -0.5
C18_RateSignedHalves ==
    (/\ call.fn = "from_bytes_some"
     /\ call.kind = "Rate"
     /\ Len(call.data) >= 1
     /\ ret.done) =>
        LET raw == call.data[1] IN
        /\ ret.out.ok
        /\ ret.out.val[1].value.halves = C18_Signed(raw)
        /\ raw = 4 => ret.out.val = Some([value |-> HalfOf(4)])
        /\ raw >= 128 => ret.out.val[1].value.halves \in -128..-1
        /\ raw < 128 => ret.out.val[1].value.halves = raw

\* the byte 255 was decoded as the rate -0.5 Mbps
C18_Witness ==
    /\ call.fn = "from_bytes_some"
    /\ call.kind = "Rate"
    /\ call.data = <<255>>
    /\ ret.done
    /\ ret.out = Ok(Some([value |-> [halves |-> -1]]))

----------------------------------------------------------------------------
(* Properties of the Mcs decoder.                                          *)

\* bit mask (a power of 2) is set in byte v
C19_Bit(v, mask) == (v \div mask) % 2 = 1

\* C19: in a decoded Mcs each attribute is present exactly when its bit of
\* the known byte is set: bw with 0x01 (flags bits 1..0), index with 0x02
\* (the third byte), gi with 0x04 (Short iff flags & 0x04), format with 0x08
\* (Greenfield iff flags & 0x08), fec with 0x10 (Ldpc iff flags & 0x10), stbc
\* with 0x20 (flags bits 6..5), ness with 0x40
C19_McsKnownGates ==
    (/\ call.fn = "from_bytes_some"
     /\ call.kind = "Mcs"
     /\ Len(call.data) >= 3
     /\ ret.done
     /\ ret.out.ok) =>
        LET known == call.data[1]
            flags == call.data[2]
            index == call.data[3]
            mcs == ret.out.val[1]
        IN /\ mcs.bw # None <=> C19_Bit(known, 1)
           /\ mcs.bw # None =>
                 mcs.bw[1].bandwidth = (IF flags % 4 = 1 THEN 40 ELSE 20)
           /\ mcs.index = (IF C19_Bit(known, 2) THEN Some(index) ELSE None)
           /\ mcs.gi = (IF C19_Bit(known, 4)
                        THEN Some(IF C19_Bit(flags, 4) THEN "Short" ELSE "Long")
                        ELSE None)
           /\ mcs.format = (IF C19_Bit(known, 8)
                            THEN Some(IF C19_Bit(flags, 8) THEN "Greenfield" ELSE "Mixed")
                            ELSE None)
           /\ mcs.fec = (IF C19_Bit(known, 16)
                         THEN Some(IF C19_Bit(flags, 16) THEN "Ldpc" ELSE "Bcc")
                         ELSE None)
           /\ mcs.stbc = (IF C19_Bit(known, 32) THEN Some((flags \div 32) % 4) ELSE None)
           /\ mcs.ness # None <=> C19_Bit(known, 64)

\* an Mcs was decoded with bw, gi and stbc present and index, format, fec
\* and ness absent
C19_Witness ==
    /\ call.fn = "from_bytes_some"
    /\ call.kind = "Mcs"
    /\ call.data = <<37, 255, 7>>
    /\ ret.done
    /\ ret.out.ok
    /\ ret.out.val[1].stbc = Some(3)
    /\ ret.out.val[1].gi = Some("Short")
    /\ ret.out.val[1].fec = None
    /\ ret.out.val[1].index = None

\* C20: the Mcs decoder gives a datarate exactly when bw and gi are both
\* present and the index byte is in 0..31, and then the entry of the HT rate
\* table for (index, bw, gi); known = 0x07, flags = 0x04, index = 7 give
\* bw 20, index 7, gi Short and the entry for (7, 20, Short), 72.2 Mbps
C20_McsDatarate ==
    (/\ call.fn = "from_bytes_some"
     /\ call.kind = "Mcs"
     /\ Len(call.data) >= 3
     /\ ret.done) =>
        LET known == call.data[1]
            flags == call.data[2]
            index == call.data[3]
            produced == ret.out.ok /\ ret.out.val[1].datarate # None
            bw == [bandwidth |-> IF flags % 4 = 1 THEN 40 ELSE 20,
                   sideband |-> CASE flags % 4 = 2 -> "L"
                                  [] flags % 4 = 3 -> "U"
                                  [] OTHER -> "None"]
            gi == IF C19_Bit(flags, 4) THEN "Short" ELSE "Long"
        IN /\ produced <=> (C19_Bit(known, 1) /\ C19_Bit(known, 4) /\ index \in 0..31)
           /\ produced => ret.out.val[1].datarate = Some(ht_rate(index, bw, gi).val)
           /\ (known = 7 /\ flags = 4 /\ index = 7) =>
                 /\ ret.out.ok
                 /\ ret.out.val[1].bw = Some([bandwidth |-> 20, sideband |-> "None"])
                 /\ ret.out.val[1].index = Some(7)
                 /\ ret.out.val[1].gi = Some("Short")
                 /\ ret.out.val[1].datarate = Some(722)

\* the Mcs of the example was decoded, with its datarate
C20_Witness ==
    /\ call.fn = "from_bytes_some"
    /\ call.kind = "Mcs"
    /\ call.data = <<7, 4, 7>>
    /\ ret.done
    /\ ret.out.ok
    /\ ret.out.val[1].datarate = Some(722)

----------------------------------------------------------------------------
(* The bit arithmetic of the Mcs, Vht and Timestamp decoders.              *)

\* C21: when bit 0x40 of known is set, a decoded Mcs has
\* ness = ((known & 0x80) >> 6) | ((flags & 0x80) >> 7): bit 7 of known is
\* its high bit and bit 7 of flags its low bit.
C21_McsNess ==
    (/\ call.fn = "from_bytes_some"
     /\ call.kind = "Mcs"
     /\ Len(call.data) >= 3
     /\ ret.done
     /\ ret.out.ok
     /\ C19_Bit(call.data[1], 64))
    => ret.out.val[1].ness
         = Some(2 * (call.data[1] \div 128) + (call.data[2] \div 128))

\* C22: in a decoded Vht, the user of slot i (0..3) with byte m = mcs_nss[i]
\* is absent iff m & 0x0F is 0, and a present user has nss = m & 0x0F,
\* index = the high nibble of m, and nsts = nss << (flags & 1).
C22_VhtUserFields ==
    (/\ call.fn = "from_bytes_some"
     /\ call.kind = "Vht"
     /\ Len(call.data) >= 12
     /\ ret.done
     /\ ret.out.ok)
    => \A i \in 1..4 :
         LET m == call.data[4 + i]
             user == ret.out.val[1].users[i]
         IN /\ (user = None) <=> (m % 16 = 0)
            /\ user # None =>
                 /\ user[1].nss = m % 16
                 /\ user[1].index = m \div 16
                 /\ user[1].nsts = (m % 16) * Pow2(call.data[3] % 2)

\* C23: in a decoded Vht, the present user of slot i (0..3) has fec Ldpc if
\* bit i of the coding byte is set and Bcc if it is clear.
C23_VhtUserFec ==
    (/\ call.fn = "from_bytes_some"
     /\ call.kind = "Vht"
     /\ Len(call.data) >= 12
     /\ ret.done
     /\ ret.out.ok)
    => \A i \in 1..4 :
         LET user == ret.out.val[1].users[i]
         IN user # None =>
              user[1].fec = IF C19_Bit(call.data[9], Pow2(i - 1))
                            THEN "Ldpc" ELSE "Bcc"

\* C24: a decoded Timestamp has its unit from the low nibble of the
\* unit_position byte and its sampling position from the high nibble,
\* whatever the other nibble is, and has an accuracy iff bit 0x02 of flags
\* is set.
C24_TimestampNibbles ==
    (/\ call.fn = "from_bytes_some"
     /\ call.kind = "Timestamp"
     /\ Len(call.data) >= 12
     /\ ret.done
     /\ ret.out.ok)
    => LET ts == ret.out.val[1] IN
         /\ TimeUnit_new(call.data[11] % 16) = Ok(ts.unit)
         /\ SamplingPosition_from(call.data[11] \div 16) = Ok(ts.position)
         /\ (ts.accuracy # None) <=> C19_Bit(call.data[12], 2)

----------------------------------------------------------------------------
(* The A-MPDU status decoder.                                              *)

\* C25: AmpduStatus::from_bytes reads reference (u32, little-endian), flags
\* (u16, little-endian) and the delimiter CRC (u8); zero_length is present
\* iff flags & 0x0001 and is then flags & 0x0002 != 0, last is present iff
\* flags & 0x0004 and is then flags & 0x0008 != 0, delimiter_crc is present
\* iff flags & 0x0020 is set and flags & 0x0010 is clear, and is then the
\* byte read.
C25_AmpduStatusGates ==
    (/\ call.fn = "from_bytes_some"
     /\ call.kind = "AmpduStatus"
     /\ Len(call.data) >= 7
     /\ ret.done)
    => /\ ret.out.ok
       /\ LET flags == call.data[5] + 256 * call.data[6]
              ampdu == ret.out.val[1]
          IN /\ ampdu.reference
                  = { b \in 0..31 : C19_Bit(call.data[1 + (b \div 8)], Pow2(b % 8)) }
             /\ ampdu.zero_length = IF C19_Bit(flags, 1)
                                    THEN Some(C19_Bit(flags, 2)) ELSE None
             /\ ampdu.last = IF C19_Bit(flags, 4)
                             THEN Some(C19_Bit(flags, 8)) ELSE None
             /\ ampdu.delimiter_crc = IF C19_Bit(flags, 32) /\ ~C19_Bit(flags, 16)
                                      THEN Some(call.data[7]) ELSE None

\* an AmpduStatus with the CRC known and in error has been decoded: no
\* delimiter CRC, zero_length Some(true), last Some(false)
C25_Witness ==
    /\ call.fn = "from_bytes_some"
    /\ call.kind = "AmpduStatus"
    /\ call.data = <<1, 2, 3, 4, 55, 0, 90, 0>>
    /\ ret.done
    /\ ret.out.ok
    /\ ret.out.val[1].delimiter_crc = None
    /\ ret.out.val[1].zero_length = Some(TRUE)
    /\ ret.out.val[1].last = Some(FALSE)

----------------------------------------------------------------------------
(* The header's size and length.                                           *)

\* C26: a header Header::from_bytes returns has size <= length <= the
\* length of the input: the payload region from size to length is a range
\* inside the input, empty at the least.
C26_HeaderWithinInput ==
    HeaderReturned =>
        /\ header.size <= header.length
        /\ header.length <= Len(input)

----------------------------------------------------------------------------
(* The rate lookup of the Mcs decoder.                                     *)

\* C27: when bits 0x01 (bandwidth) and 0x04 (guard interval) of known are
\* both set, Mcs::from_bytes looks the raw index byte up in the HT rate
\* table whether or not bit 0x02 (index known) is set: if the table has the
\* index, the Mcs carries its rate, with index None when bit 0x02 is clear;
\* if the lookup rejects the index, the decode returns an error and no Mcs.
C27_McsRateLookupOnRawIndex ==
    (/\ call.fn = "from_bytes_some"
     /\ call.kind = "Mcs"
     /\ Len(call.data) >= 3
     /\ ret.done
     /\ C19_Bit(call.data[1], 1)
     /\ C19_Bit(call.data[1], 4))
    => LET rate == ht_rate(call.data[3],
                           Bandwidth_new(call.data[2] % 4).val,
                           IF C19_Bit(call.data[2], 4) THEN "Short" ELSE "Long")
       IN IF rate.ok
          THEN /\ ret.out.ok
               /\ ret.out.val[1].datarate = Some(rate.val)
               /\ ret.out.val[1].index
                    = IF C19_Bit(call.data[1], 2) THEN Some(call.data[3]) ELSE None
          ELSE ret.out = Err("InvalidFormat")

\* an Mcs with bw and gi known, the index not known and an index byte of 32
\* was rejected
C27_Witness ==
    /\ call.fn = "from_bytes_some"
    /\ call.kind = "Mcs"
    /\ call.data = <<5, 0, 32>>
    /\ ret.done
    /\ ~ret.out.ok

----------------------------------------------------------------------------
(* The effect of Radiotap::update on the record.                           *)

\* C28: Radiotap::update(kind, data) changes no slot but the one of kind;
\* when the decoder rejects data it returns the error and leaves every
\* slot as it was, the slot of kind with its previous value included, and
\* when the decoder accepts data the slot of kind holds the decoded field.
C28_UpdateFrame ==
    (call.fn = "update" /\ ret.done) =>
        LET field == Decode(call.kind, call.data) IN
        /\ DOMAIN radiotap = DOMAIN call.self
        /\ \A slot \in DOMAIN call.self \ {SlotOf(call.kind)} :
              radiotap[slot] = call.self[slot]
        /\ ~field.ok => /\ ret.out = Err("InvalidFormat")
                        /\ radiotap = call.self
        /\ field.ok => /\ ret.out.ok
                       /\ radiotap[SlotOf(call.kind)] = Some(field.val)

\* update was called for a Timestamp on a record whose slots are all
\* filled, the decoder rejected the slice, and the record still holds the
\* earlier Timestamp
C28_Witness ==
    /\ call.fn = "update"
    /\ call.kind = "Timestamp"
    /\ call.data = <<1, 2, 3, 4, 5, 6, 7, 8, 9, 10, 11, 12>>
    /\ \A slot \in DOMAIN call.self : call.self[slot] # None
    /\ ret.done
    /\ ~ret.out.ok
    /\ radiotap.timestamp # None

====
